---------------------------- MODULE Spec2Model ----------------------------
(***************************************************************************)
(* astrbot_plugin_text2image: the segmenter (core/emoji.py), the emoji     *)
(* bitmap lookup (core/emoji.py), the layout and render engine             *)
(* (core/renderer.py) and the result decorator of the plugin (main.py).    *)
(*                                                                         *)
(* Strings are sequences of Unicode code points (integers).                *)
(***************************************************************************)
EXTENDS Integers, Sequences, FiniteSets, TLC

VARIABLES
    \* EmojiHandler.split_text(line)
    line, result, spc,
    \* EmojiHandler.get_image(emoji, size): the argument, self._cache, the
    \* candidate urls still to try, the urls fetched so far in this call, what
    \* the call returned, where the call stands, the calls made so far
    emoji, _cache, urls, fetched, img, epc, ncalls,
    \* TextRenderer.render(text): the argument, self.config, the font's advance,
    \* the locals of render (geometry, render_lines, canvas_height, y), the row
    \* the paint loop is at, what it drew, the emoji handler's cached bitmaps,
    \* where the call stands, what it returned, what it raised
    text, config, adv2, geom, render_lines, canvas_height, y, row, drawn, bitmaps,
    rpc, ret, raised,
    \* Text2ImagePlugin.on_decorating_result(event): the event, result.chain,
    \* the temporary image file, where the handler stands, whether the client
    \* sent the image, whether event.stop_event() was called, whether the
    \* recall-mode try block raised, the pending tasks of self._recall_tasks,
    \* the events handled so far
    ev, chain, file, ppc, sent, stopped, recall_raised, _recall_tasks, nevents

segVars == <<line, result, spc>>
emojiVars == <<emoji, _cache, urls, fetched, img, epc, ncalls>>
renderVars == <<text, config, adv2, geom, render_lines, canvas_height, y, row, drawn,
                bitmaps, rpc, ret, raised>>
pluginVars == <<ev, chain, file, ppc, sent, stopped, recall_raised, _recall_tasks,
                nevents>>
vars == <<segVars, emojiVars, renderVars, pluginVars>>

\* what a step of one component leaves alone
SegOnly == UNCHANGED <<emojiVars, renderVars, pluginVars>>
EmojiOnly == UNCHANGED <<segVars, renderVars, pluginVars>>
RenderOnly == UNCHANGED <<segVars, emojiVars, pluginVars>>
PluginOnly == UNCHANGED <<segVars, emojiVars, renderVars>>

-----------------------------------------------------------------------------
(* Bounds of the model *)

MaxLineLen == 3
MaxEmojiLen == 3
MaxCalls == 2
MaxTextLen == 4
MaxAdvance2 == 4
MaxEvents == 2

-----------------------------------------------------------------------------
(* Code points *)

LatinA == 97
Space == 32
Newline == 10
Hyphen == 45
Heart == 10084
Grin == 128512
VS15 == 65038
VS16 == 65039
ZWJ == 8205

\* EmojiHandler.PATTERN's character class
IsEmojiClass(c) ==
    \/ c \in 128512..128591
    \/ c \in 127744..128511
    \/ c \in 128640..128767
    \/ c \in 127456..127487
    \/ c \in 129280..129535
    \/ c \in 129536..129647
    \/ c \in 129648..129791
    \/ c \in 126976..127231
    \/ c \in 9728..10175
    \/ c \in 11088..11093
    \/ c \in 8960..9215
    \/ c \in 9986..10160
    \/ c \in 65024..65039
    \/ c = 8205

\* EmojiHandler.SEPARATOR_CHARS
SEPARATOR_CHARS == {9473, 9472, 9552, 8212, 95, 45, 126, 183, 8226}

-----------------------------------------------------------------------------
(* Sequence helpers (Python slicing and joining) *)

\* t[i:j] with 0-based half-open Python indices
Slice(t, i, j) == SubSeq(t, i + 1, j)

RECURSIVE Concat(_)
Concat(parts) ==
    IF parts = <<>> THEN <<>> ELSE Head(parts) \o Concat(Tail(parts))

SeqsUpTo(S, n) == UNION {[1..k -> S] : k \in 0..n}

-----------------------------------------------------------------------------
(* EmojiHandler.split_text *)

TextSegment(t, is_emoji, no_wrap) ==
    [text |-> t, is_emoji |-> is_emoji, no_wrap |-> no_wrap]

\* end (exclusive, 0-based) of the PATTERN match that starts at i: "(...)+" is greedy
RECURSIVE MatchEnd(_, _)
MatchEnd(t, j) ==
    IF j < Len(t) /\ IsEmojiClass(t[j + 1]) THEN MatchEnd(t, j + 1) ELSE j

\* PATTERN.fullmatch(part)
FullMatch(part) ==
    /\ part # <<>>
    /\ \A k \in 1..Len(part) : IsEmojiClass(part[k])

\* PATTERN.split(t): the t between the matches, and for each match its
\* group 1.  The group sits inside the repetition, "([...])+", so after a match
\* it holds the LAST code point the repetition consumed.
RECURSIVE PatternSplit(_, _, _)
PatternSplit(t, start, i) ==
    IF i >= Len(t) THEN <<Slice(t, start, Len(t))>>
    ELSE IF IsEmojiClass(t[i + 1])
         THEN LET e == MatchEnd(t, i)
              IN  <<Slice(t, start, i), Slice(t, e - 1, e)>>
                    \o PatternSplit(t, e, e)
         ELSE PatternSplit(t, start, i + 1)

\* end of the run of equal characters that starts at i (the inner while loop)
RECURSIVE RunEnd(_, _, _)
RunEnd(t, char, j) ==
    IF j < Len(t) /\ t[j + 1] = char THEN RunEnd(t, char, j + 1) ELSE j

RECURSIVE SplitSeparatorsFrom(_, _)
SplitSeparatorsFrom(t, i) ==
    IF i >= Len(t) THEN <<>>
    ELSE LET char == t[i + 1]
             j == RunEnd(t, char, i + 1)
             seg == IF j - i >= 3 /\ char \in SEPARATOR_CHARS
                    THEN TextSegment(Slice(t, i, j), FALSE, TRUE)
                    ELSE TextSegment(Slice(t, i, j), FALSE, FALSE)
         IN  <<seg>> \o SplitSeparatorsFrom(t, j)

_split_separators(t) == SplitSeparatorsFrom(t, 0)

RECURSIVE SplitParts(_)
SplitParts(parts) ==
    IF parts = <<>> THEN <<>>
    ELSE LET part == Head(parts)
         IN  IF part = <<>> THEN SplitParts(Tail(parts))
             ELSE IF FullMatch(part)
                  THEN <<TextSegment(part, TRUE, FALSE)>> \o SplitParts(Tail(parts))
                  ELSE _split_separators(part) \o SplitParts(Tail(parts))

split_text(t) == SplitParts(PatternSplit(t, 0, 0))

-----------------------------------------------------------------------------
(* The segmenter on its own: any line, then split_text *)

SegChars == {LatinA, Hyphen, Heart, Grin, VS16, ZWJ}

SegIdle == line = <<>> /\ result = <<>> /\ spc = "off"

SegInit ==
    /\ line \in SeqsUpTo(SegChars, MaxLineLen)
    /\ result = <<>>
    /\ spc = "call"

SplitText ==
    /\ spc = "call"
    /\ result' = split_text(line)
    /\ spc' = "done"
    /\ UNCHANGED line
    /\ SegOnly

\* the handler is reused for the next line
NextLine ==
    /\ spc = "done"
    /\ line' \in SeqsUpTo(SegChars, MaxLineLen)
    /\ result' = <<>>
    /\ spc' = "call"
    /\ SegOnly

SegNext == SplitText \/ NextLine

-----------------------------------------------------------------------------
(* EmojiHandler._get_twemoji_urls *)

\* one lowercase hex digit as a character
HexDigit(d) == IF d < 10 THEN 48 + d ELSE 97 + (d - 10)

\* f'{n:x}'
RECURSIVE Hex(_)
Hex(n) == IF n < 16 THEN <<HexDigit(n)>> ELSE Hex(n \div 16) \o <<HexDigit(n % 16)>>

\* '-'.join(f'{ord(c):x}' for c in t)
RECURSIVE HexJoin(_)
HexJoin(t) ==
    IF t = <<>> THEN <<>>
    ELSE IF Len(t) = 1 THEN Hex(t[1])
    ELSE Hex(t[1]) \o <<Hyphen>> \o HexJoin(Tail(t))

\* emoji.replace('\ufe0f', '')
RECURSIVE RemoveFE0F(_)
RemoveFE0F(t) ==
    IF t = <<>> THEN <<>>
    ELSE IF Head(t) = 65039 THEN RemoveFE0F(Tail(t))
    ELSE <<Head(t)>> \o RemoveFE0F(Tail(t))

\* the candidates with the two first swapped (format 2 tried before format 1)
TwemojiUrlsRetainedFirst(e) ==
    LET cleaned == RemoveFE0F(e)
        codepoints == HexJoin(cleaned)
        codepoints_with_fe0f == HexJoin(e)
        urls1 == IF codepoints_with_fe0f # codepoints
                 THEN <<codepoints_with_fe0f, codepoints>> ELSE <<codepoints>>
    IN  IF Len(cleaned) > 0 /\ Hex(cleaned[1]) # codepoints
        THEN Append(urls1, Hex(cleaned[1])) ELSE urls1

\* A url is modelled by its file stem: base and ".png" are the same in all.
_get_twemoji_urls(e) ==
    LET cleaned == RemoveFE0F(e)
        codepoints == HexJoin(cleaned)
        codepoints_with_fe0f == HexJoin(e)
        urls1 == <<codepoints>>
        urls2 == IF codepoints_with_fe0f # codepoints
                 THEN Append(urls1, codepoints_with_fe0f) ELSE urls1
        urls3 == IF Len(cleaned) > 0 /\ Hex(cleaned[1]) # codepoints
                 THEN Append(urls2, Hex(cleaned[1])) ELSE urls2
    IN  urls3

-----------------------------------------------------------------------------
(* EmojiHandler.get_image: a handler that serves a few calls, keeping its cache *)

\* the emoji texts asked for: every text of a heart and U+FE0F up to the bound,
\* and two with the text-presentation selector U+FE0E
EmojiTexts ==
    (SeqsUpTo({Heart, VS16}, MaxEmojiLen) \ {<<>>})
        \cup {<<Heart, VS15>>, <<VS15, Heart>>}
EmojiSize == 1

cache_key(e, size) == <<e, size>>

EmojiIdle ==
    /\ emoji = <<>> /\ _cache = {} /\ urls = <<>> /\ fetched = <<>>
    /\ img = "none" /\ epc = "off" /\ ncalls = 0

EmojiInit ==
    /\ emoji = <<>> /\ _cache = {} /\ urls = <<>> /\ fetched = <<>>
    /\ img = "none" /\ epc = "idle" /\ ncalls = 0

\* lines 72-74: the call and the cache hit
GetImageHit(e) ==
    /\ epc = "idle" /\ ncalls < MaxCalls
    /\ cache_key(e, EmojiSize) \in _cache
    /\ emoji' = e /\ ncalls' = ncalls + 1
    /\ urls' = <<>> /\ fetched' = <<>>
    /\ img' = "image" /\ epc' = "returned"
    /\ UNCHANGED _cache
    /\ EmojiOnly

\* lines 72-76: the call and the cache miss
GetImageMiss(e) ==
    /\ epc = "idle" /\ ncalls < MaxCalls
    /\ cache_key(e, EmojiSize) \notin _cache
    /\ emoji' = e /\ ncalls' = ncalls + 1
    /\ urls' = _get_twemoji_urls(e) /\ fetched' = <<>>
    /\ img' = "none" /\ epc' = "loop"
    /\ UNCHANGED _cache
    /\ EmojiOnly

\* lines 76-82: urlopen, decode, resize all succeed for the next url
FetchOk ==
    /\ epc = "loop" /\ urls # <<>>
    /\ fetched' = Append(fetched, [url |-> Head(urls), ok |-> TRUE])
    /\ _cache' = _cache \cup {cache_key(emoji, EmojiSize)}
    /\ img' = "image" /\ epc' = "returned"
    /\ UNCHANGED <<emoji, urls, ncalls>>
    /\ EmojiOnly

\* lines 76-84: urlopen, decode or resize raises; the exception is swallowed
FetchFails ==
    /\ epc = "loop" /\ urls # <<>>
    /\ fetched' = Append(fetched, [url |-> Head(urls), ok |-> FALSE])
    /\ urls' = Tail(urls)
    /\ UNCHANGED <<emoji, _cache, img, epc, ncalls>>
    /\ EmojiOnly

\* line 85
ReturnNone ==
    /\ epc = "loop" /\ urls = <<>>
    /\ img' = "none" /\ epc' = "returned"
    /\ UNCHANGED <<emoji, _cache, urls, fetched, ncalls>>
    /\ EmojiOnly

\* the caller takes the result; the handler waits for the next call
Returned ==
    /\ epc = "returned"
    /\ epc' = "idle"
    /\ UNCHANGED <<emoji, _cache, urls, fetched, img, ncalls>>
    /\ EmojiOnly

EmojiNext ==
    \/ \E e \in EmojiTexts : GetImageHit(e)
    \/ \E e \in EmojiTexts : GetImageMiss(e)
    \/ FetchOk
    \/ FetchFails
    \/ ReturnNone
    \/ Returned

-----------------------------------------------------------------------------
(* Configuration values: TextRenderer._get_config, then int(), float(), str() *)

\* a value of the configuration mapping: no entry, an int, a float (held in
\* tenths), or a string
Absent == [kind |-> "absent", v |-> 0, s |-> <<>>]
IntVal(n) == [kind |-> "int", v |-> n, s |-> <<>>]
TenthsVal(n) == [kind |-> "tenths", v |-> n, s |-> <<>>]
StrVal(s) == [kind |-> "str", v |-> 0, s |-> s]

Ok(v) == [ok |-> TRUE, v |-> v]
Raises == [ok |-> FALSE, v |-> 0]

IsDigits(s) == s # <<>> /\ \A k \in 1..Len(s) : s[k] \in 48..57

RECURSIVE Decimal(_)
Decimal(s) ==
    IF s = <<>> THEN 0 ELSE 10 * Decimal(SubSeq(s, 1, Len(s) - 1)) + (s[Len(s)] - 48)

\* int(self._get_config(key, default)): a string of decimal digits converts,
\* any other string of the model raises ValueError
PyInt(val, default) ==
    CASE val.kind = "absent" -> Ok(default)
      [] val.kind = "int" -> Ok(val.v)
      [] val.kind = "tenths" -> Ok(val.v \div 10)
      [] val.kind = "str" -> IF IsDigits(val.s) THEN Ok(Decimal(val.s)) ELSE Raises

\* float(self._get_config(key, default)), in tenths
PyFloat(val, default10) ==
    CASE val.kind = "absent" -> Ok(default10)
      [] val.kind = "int" -> Ok(10 * val.v)
      [] val.kind = "tenths" -> Ok(val.v)
      [] val.kind = "str" -> IF IsDigits(val.s) THEN Ok(10 * Decimal(val.s)) ELSE Raises

\* str(self._get_config(key, default)) never raises
PyStr(val, default) == IF val.kind = "str" THEN val.s ELSE default

-----------------------------------------------------------------------------
(* TextRenderer._hex_to_rgb *)

Hash == 35

IsHexChar(c) == c \in 48..57 \/ c \in 97..102 \/ c \in 65..70

HexCharValue(c) ==
    IF c \in 48..57 THEN c - 48 ELSE IF c \in 97..102 THEN c - 87 ELSE c - 55

\* hex_color.lstrip('#')
RECURSIVE LStripHash(_)
LStripHash(s) ==
    IF s # <<>> /\ Head(s) = Hash THEN LStripHash(Tail(s)) ELSE s

\* ''.join(c * 2 for c in hex_color)
RECURSIVE DoubleChars(_)
DoubleChars(s) ==
    IF s = <<>> THEN <<>> ELSE <<Head(s), Head(s)>> \o DoubleChars(Tail(s))

\* hex_color[i:i+2]: a slice past the end is shorter or empty
PySlice2(s, i) ==
    IF i >= Len(s) THEN <<>> ELSE SubSeq(s, i + 1, IF i + 2 <= Len(s) THEN i + 2 ELSE Len(s))

\* int(piece, 16): raises ValueError on an empty piece or a non-hex character
HexPieceOk(piece) == piece # <<>> /\ \A k \in 1..Len(piece) : IsHexChar(piece[k])

HexPieceValue(piece) ==
    IF Len(piece) = 1 THEN HexCharValue(piece[1])
    ELSE 16 * HexCharValue(piece[1]) + HexCharValue(piece[2])

_hex_to_rgb(hex_color) ==
    LET stripped == LStripHash(hex_color)
        hex == IF Len(stripped) = 3 THEN DoubleChars(stripped) ELSE stripped
        pieces == <<PySlice2(hex, 0), PySlice2(hex, 2), PySlice2(hex, 4)>>
    IN  IF \A k \in 1..3 : HexPieceOk(pieces[k])
        THEN Ok([k \in 1..3 |-> HexPieceValue(pieces[k])])
        ELSE Raises

-----------------------------------------------------------------------------
(* TextRenderer.render: geometry (lines 49-66) *)

DefaultBg == <<35, 102, 102, 102, 102, 102, 102>>
DefaultFg == <<35, 51, 51, 51, 51, 51, 51>>

\* the seven reads of lines 49-55, in order; int() and float() may raise
ParsedConfig(cfg) ==
    [width |-> PyInt(cfg.image_width, 375),
     scale |-> PyInt(cfg.image_scale, 2),
     padding |-> PyInt(cfg.padding, 24),
     font_size |-> PyInt(cfg.font_size, 24),
     line_height |-> PyFloat(cfg.line_height, 16),
     bg_color |-> Ok(PyStr(cfg.bg_color, DefaultBg)),
     text_color |-> Ok(PyStr(cfg.text_color, DefaultFg))]

ConfigRaises(cfg) ==
    LET p == ParsedConfig(cfg)
    IN  \E k \in DOMAIN p : ~p[k].ok

\* lines 57-66.  int(real_font_size * 1.1) and int(real_font_size * line_height)
\* truncate; the products are taken exactly, in tenths
Geometry(cfg) ==
    LET p == ParsedConfig(cfg)
        real_width == p.width.v * p.scale.v
        real_padding == p.padding.v * p.scale.v
        real_font_size == p.font_size.v * p.scale.v
    IN  [real_width |-> real_width,
         real_padding |-> real_padding,
         real_font_size |-> real_font_size,
         emoji_size |-> (real_font_size * 11) \div 10,
         text_area_width |-> real_width - real_padding * 2,
         line_pixel_height |-> (real_font_size * p.line_height.v) \div 10,
         bg_color |-> p.bg_color.v,
         text_color |-> p.text_color.v]

NoGeometry ==
    [real_width |-> 0, real_padding |-> 0, real_font_size |-> 0, emoji_size |-> 0,
     text_area_width |-> 0, line_pixel_height |-> 0, bg_color |-> <<>>,
     text_color |-> <<>>]

-----------------------------------------------------------------------------
(* TextRenderer.render: segmentation and wrapping (lines 69-104) *)

\* str.isspace for the characters str.strip() removes (the ASCII ones, U+0085, U+00A0)
IsWhitespace(c) == c \in {9, 10, 11, 12, 13, 28, 29, 30, 31, 32, 133, 160}

\* not line.strip()
IsBlankLine(l) == \A k \in 1..Len(l) : IsWhitespace(l[k])

\* text.split('\n')
RECURSIVE SplitLinesFrom(_, _)
SplitLinesFrom(t, cur) ==
    IF t = <<>> THEN <<cur>>
    ELSE IF Head(t) = 10 THEN <<cur>> \o SplitLinesFrom(Tail(t), <<>>)
    ELSE SplitLinesFrom(Tail(t), Append(cur, Head(t)))

SplitLines(t) == SplitLinesFrom(t, <<>>)

\* int(font.getlength(s)): the font advances every character by adv2 half pixels
MeasuredWidth(s, a2) == (Len(s) * a2) \div 2

Unit(seg, w) == [seg |-> seg, w |-> w]
RenderLine(segments, is_empty) == [segments |-> segments, is_empty |-> is_empty]

\* the overflow test with the edge included (>= for >)
OverflowsAtEdge(current_x, w, W) == current_x + w >= W /\ current_x > 0

\* lines 83 and 96: current_x + width > text_area_width and current_x > 0
Overflows(current_x, w, W) == current_x + w > W /\ current_x > 0

\* lines 83-88 and 96-101: flush the row if the unit overflows it, then append
PlaceChecked(st, seg, w, W) ==
    LET flush == Overflows(st.current_x, w, W)
        rows == IF flush
                THEN Append(st.render_lines, RenderLine(st.line_segments, FALSE))
                ELSE st.render_lines
        segs == IF flush THEN <<>> ELSE st.line_segments
        x == IF flush THEN 0 ELSE st.current_x
    IN  [render_lines |-> rows,
         line_segments |-> Append(segs, Unit(seg, w)),
         current_x |-> x + w]

\* lines 90-92: a no_wrap segment is appended with no overflow test
PlaceNoWrap(st, seg, w) ==
    [render_lines |-> st.render_lines,
     line_segments |-> Append(st.line_segments, Unit(seg, w)),
     current_x |-> st.current_x + w]

\* lines 94-101
RECURSIVE PlaceChars(_, _, _, _)
PlaceChars(st, chars, a2, W) ==
    IF chars = <<>> THEN st
    ELSE PlaceChars(
             PlaceChecked(st, TextSegment(<<Head(chars)>>, FALSE, FALSE),
                          MeasuredWidth(<<Head(chars)>>, a2), W),
             Tail(chars), a2, W)

\* lines 81-101
RECURSIVE PlaceSegments(_, _, _, _)
PlaceSegments(st, segments, g, a2) ==
    IF segments = <<>> THEN st
    ELSE LET seg == Head(segments)
             next == IF seg.is_emoji
                     THEN PlaceChecked(st, seg, g.emoji_size, g.text_area_width)
                     ELSE IF seg.no_wrap
                     THEN PlaceNoWrap(st, seg, MeasuredWidth(seg.text, a2))
                     ELSE PlaceChars(st, seg.text, a2, g.text_area_width)
         IN  PlaceSegments(next, Tail(segments), g, a2)

\* a blank source line that leaves no row at all
LayoutLineSkippingBlank(rows, l, g, a2) ==
    IF IsBlankLine(l) THEN rows
    ELSE LET st == PlaceSegments(
                       [render_lines |-> rows, line_segments |-> <<>>, current_x |-> 0],
                       split_text(l), g, a2)
         IN  IF st.line_segments # <<>>
             THEN Append(st.render_lines, RenderLine(st.line_segments, FALSE))
             ELSE st.render_lines

\* lines 72-104, one source line
LayoutLine(rows, l, g, a2) ==
    IF IsBlankLine(l) THEN Append(rows, RenderLine(<<>>, TRUE))
    ELSE LET st == PlaceSegments(
                       [render_lines |-> rows, line_segments |-> <<>>, current_x |-> 0],
                       split_text(l), g, a2)
         IN  IF st.line_segments # <<>>
             THEN Append(st.render_lines, RenderLine(st.line_segments, FALSE))
             ELSE st.render_lines

RECURSIVE LayoutLines(_, _, _, _)
LayoutLines(rows, lines, g, a2) ==
    IF lines = <<>> THEN rows
    ELSE LayoutLines(LayoutLine(rows, Head(lines), g, a2), Tail(lines), g, a2)

-----------------------------------------------------------------------------
(* TextRenderer.render: canvas height (lines 106-110) and paint (lines 119-137) *)

\* a blank row as tall as any other
RowHeightFull(is_empty, line_pixel_height) == line_pixel_height

\* line 109: int(line_pixel_height * 0.5) if is_empty else line_pixel_height
RowHeight(is_empty, line_pixel_height) ==
    IF is_empty THEN line_pixel_height \div 2 ELSE line_pixel_height

RECURSIVE TotalHeight(_, _)
TotalHeight(rows, line_pixel_height) ==
    IF rows = <<>> THEN 0
    ELSE RowHeight(Head(rows).is_empty, line_pixel_height)
             + TotalHeight(Tail(rows), line_pixel_height)

\* lines 122 and 137: what the paint loop adds to y after a row
PaintAdvance(is_empty, line_pixel_height) ==
    IF is_empty THEN line_pixel_height \div 2 ELSE line_pixel_height

\* x moves on only past an emoji whose bitmap was pasted
XAfterUnitPastedOnly(x, unit, got) ==
    IF unit.seg.is_emoji /\ ~got THEN x ELSE x + unit.w

\* lines 127-136: x += w in both branches, bitmap or not
XAfterUnit(x, unit, got) == x + unit.w

\* lines 126-136 for one row: where each unit was drawn, and whether an emoji's
\* bitmap was there to paste (got[k]: what get_image returned for unit k)
RECURSIVE PaintUnits(_, _, _, _)
PaintUnits(units, k, x, got) ==
    IF k > Len(units) THEN <<>>
    ELSE <<[x |-> x,
            is_emoji |-> units[k].seg.is_emoji,
            pasted |-> units[k].seg.is_emoji /\ got[k]]>>
             \o PaintUnits(units, k + 1, XAfterUnit(x, units[k], got[k]), got)

\* What get_image can return along one row, given the handler's cache: an
\* emoji text that is cached (from an earlier row, or from an earlier unit of
\* this row) has a bitmap; any other lookup succeeds or fails.
Lookups(units, cached) ==
    {got \in [1..Len(units) -> BOOLEAN] :
        \A k \in 1..Len(units) :
            IF units[k].seg.is_emoji
            THEN (\/ units[k].seg.text \in cached
                  \/ \E j \in 1..(k - 1) :
                        /\ units[j].seg.is_emoji
                        /\ units[j].seg.text = units[k].seg.text
                        /\ got[j]) => got[k]
            ELSE ~got[k]}

-----------------------------------------------------------------------------
(* TextRenderer.render as a run: one renderer, one call *)

TextChars == {LatinA, Hyphen, Space, Newline, Grin}
Texts == SeqsUpTo(TextChars, MaxTextLen)

\* the advance of one character of the loaded font, in half pixels
Advances == 2..MaxAdvance2

Config(image_width, image_scale, padding, font_size, line_height, bg_color, text_color) ==
    [image_width |-> image_width, image_scale |-> image_scale, padding |-> padding,
     font_size |-> font_size, line_height |-> line_height,
     bg_color |-> bg_color, text_color |-> text_color]

\* The configurations rendered with: narrow canvases, so that short texts wrap;
\* the defaults; a malformed number ("abc") and a malformed colour ("red").
Configs ==
    {Config(IntVal(3), IntVal(1), IntVal(0), IntVal(1), TenthsVal(10), Absent, Absent),
     Config(IntVal(5), IntVal(1), IntVal(1), IntVal(2), TenthsVal(15),
            Absent, StrVal(<<35, 51, 51, 51>>)),
     Config(StrVal(<<51>>), IntVal(2), IntVal(1), IntVal(1), IntVal(1),
            StrVal(<<102, 102, 102, 102, 102, 102>>), Absent),
     Config(Absent, Absent, Absent, Absent, Absent, Absent, Absent),
     Config(StrVal(<<97, 98, 99>>), IntVal(1), IntVal(0), IntVal(1), TenthsVal(10),
            Absent, Absent),
     Config(IntVal(3), IntVal(1), IntVal(0), IntVal(1), TenthsVal(10),
            StrVal(<<114, 101, 100>>), Absent)}

RenderIdle ==
    /\ text = <<>> /\ config = Config(Absent, Absent, Absent, Absent, Absent, Absent, Absent)
    /\ adv2 = 2 /\ geom = NoGeometry /\ render_lines = <<>> /\ canvas_height = 0
    /\ y = 0 /\ row = 0 /\ drawn = <<>> /\ bitmaps = {}
    /\ rpc = "off" /\ ret = "none" /\ raised = "no"

RenderInit ==
    /\ text \in Texts /\ config \in Configs /\ adv2 \in Advances
    /\ geom = NoGeometry /\ render_lines = <<>> /\ canvas_height = 0
    /\ y = 0 /\ row = 0 /\ drawn = <<>> /\ bitmaps = {}
    /\ rpc = "config" /\ ret = "none" /\ raised = "no"

\* lines 49-66
ReadConfig ==
    /\ rpc = "config" /\ ~ConfigRaises(config)
    /\ geom' = Geometry(config)
    /\ rpc' = "layout"
    /\ UNCHANGED <<text, config, adv2, render_lines, canvas_height, y, row, drawn,
                   bitmaps, ret, raised>>
    /\ RenderOnly

\* lines 49-53: int() or float() raises ValueError, which leaves render
ReadConfigRaises ==
    /\ rpc = "config" /\ ConfigRaises(config)
    /\ rpc' = "raised" /\ raised' = "config"
    /\ UNCHANGED <<text, config, adv2, geom, render_lines, canvas_height, y, row,
                   drawn, bitmaps, ret>>
    /\ RenderOnly

\* lines 69-104
Layout ==
    /\ rpc = "layout"
    /\ render_lines' = LayoutLines(<<>>, SplitLines(text), geom, adv2)
    /\ rpc' = "size"
    /\ UNCHANGED <<text, config, adv2, geom, canvas_height, y, row, drawn, bitmaps,
                   ret, raised>>
    /\ RenderOnly

\* lines 106-119
SizeCanvas ==
    /\ rpc = "size"
    /\ _hex_to_rgb(geom.bg_color).ok /\ _hex_to_rgb(geom.text_color).ok
    /\ canvas_height' = TotalHeight(render_lines, geom.line_pixel_height)
                            + geom.real_padding * 2
    /\ y' = geom.real_padding
    /\ row' = 1
    /\ rpc' = "paint"
    /\ UNCHANGED <<text, config, adv2, geom, render_lines, drawn, bitmaps, ret, raised>>
    /\ RenderOnly

\* lines 106-114: _hex_to_rgb raises ValueError, which leaves render
SizeCanvasRaises ==
    /\ rpc = "size"
    /\ ~(_hex_to_rgb(geom.bg_color).ok /\ _hex_to_rgb(geom.text_color).ok)
    /\ canvas_height' = TotalHeight(render_lines, geom.line_pixel_height)
                            + geom.real_padding * 2
    /\ rpc' = "raised" /\ raised' = "color"
    /\ UNCHANGED <<text, config, adv2, geom, render_lines, y, row, drawn, bitmaps, ret>>
    /\ RenderOnly

\* lines 120-123: a blank row
PaintBlankRow ==
    /\ rpc = "paint" /\ row <= Len(render_lines)
    /\ render_lines[row].is_empty
    /\ drawn' = Append(drawn, [y |-> y, units |-> <<>>])
    /\ y' = y + PaintAdvance(TRUE, geom.line_pixel_height)
    /\ row' = row + 1
    /\ UNCHANGED <<text, config, adv2, geom, render_lines, canvas_height, bitmaps,
                   rpc, ret, raised>>
    /\ RenderOnly

\* lines 120, 125-137: a row of units; get_image answers for each emoji
PaintRow ==
    /\ rpc = "paint" /\ row <= Len(render_lines)
    /\ ~render_lines[row].is_empty
    /\ LET units == render_lines[row].segments
       IN  \E got \in Lookups(units, bitmaps) :
               /\ drawn' = Append(drawn,
                      [y |-> y, units |-> PaintUnits(units, 1, geom.real_padding, got)])
               /\ bitmaps' = bitmaps \cup {units[k].seg.text : k \in {j \in 1..Len(units) : got[j]}}
    /\ y' = y + PaintAdvance(FALSE, geom.line_pixel_height)
    /\ row' = row + 1
    /\ UNCHANGED <<text, config, adv2, geom, render_lines, canvas_height, rpc, ret, raised>>
    /\ RenderOnly

\* lines 140, 142-148: the image is written and its path returned
SaveImage ==
    /\ rpc = "paint" /\ row > Len(render_lines)
    /\ ret' = "path" /\ rpc' = "done"
    /\ UNCHANGED <<text, config, adv2, geom, render_lines, canvas_height, y, row,
                   drawn, bitmaps, raised>>
    /\ RenderOnly

\* lines 140, 142-148: the temporary file cannot be made or written
SaveImageRaises ==
    /\ rpc = "paint" /\ row > Len(render_lines)
    /\ rpc' = "raised" /\ raised' = "save"
    /\ UNCHANGED <<text, config, adv2, geom, render_lines, canvas_height, y, row,
                   drawn, bitmaps, ret>>
    /\ RenderOnly

RenderNext ==
    \/ ReadConfig
    \/ ReadConfigRaises
    \/ Layout
    \/ SizeCanvas
    \/ SizeCanvasRaises
    \/ PaintBlankRow
    \/ PaintRow
    \/ SaveImage
    \/ SaveImageRaises

-----------------------------------------------------------------------------
(* Text2ImagePlugin.on_decorating_result (main.py)                          *)
(*                                                                         *)
(* The temporary image is a file of the plugin's own process: open() and   *)
(* os.remove() succeed on it as long as it exists, and fail once it is     *)
(* removed.                                                                *)

\* What one event brings: the configuration as _cfg_bool and int() read it,
\* the result chain ("none": no result or an empty chain, "plain": text
\* components with text, "blank": text components that strip to nothing,
\* "mixed": some other component), whether llm_resp is an LLMResponse, whether
\* the text is longer than a positive render_char_threshold, whether the event
\* is an AiocqhttpMessageEvent, whether event.bot is set.
Events ==
    [enable_render : BOOLEAN, llm_only : BOOLEAN, is_llm_response : BOOLEAN,
     chain : {"none", "plain", "blank", "mixed"}, too_long : BOOLEAN,
     recall_enabled : BOOLEAN, recall_time : {0, 30},
     aiocqhttp : BOOLEAN, has_client : BOOLEAN]

NoEvent ==
    [enable_render |-> FALSE, llm_only |-> FALSE, is_llm_response |-> FALSE,
     chain |-> "none", too_long |-> FALSE, recall_enabled |-> FALSE,
     recall_time |-> 0, aiocqhttp |-> FALSE, has_client |-> FALSE]

PluginIdle ==
    /\ ev = NoEvent /\ chain = "none" /\ file = "none" /\ ppc = "off"
    /\ sent = FALSE /\ stopped = FALSE /\ recall_raised = FALSE
    /\ _recall_tasks = 0 /\ nevents = 0

PluginInit ==
    /\ ev = NoEvent /\ chain = "none" /\ file = "none" /\ ppc = "idle"
    /\ sent = FALSE /\ stopped = FALSE /\ recall_raised = FALSE
    /\ _recall_tasks = 0 /\ nevents = 0

\* lines 112-132: every early return before rendering
RendersEvent(e) ==
    /\ e.enable_render
    /\ e.chain # "none"
    /\ ~(e.llm_only /\ ~e.is_llm_response)
    /\ e.chain = "plain"
    /\ ~e.too_long

\* lines 146-152: the recall-mode path is taken
UsesRecallMode(e) ==
    /\ e.recall_enabled /\ e.recall_time > 0
    /\ e.aiocqhttp
    /\ e.has_client

\* the framework calls the handler with an event
HandleEvent(e) ==
    /\ ppc = "idle" /\ nevents < MaxEvents
    /\ ev' = e /\ chain' = e.chain /\ file' = "none"
    /\ sent' = FALSE /\ stopped' = FALSE /\ recall_raised' = FALSE
    /\ nevents' = nevents + 1
    /\ ppc' = "gate"
    /\ UNCHANGED _recall_tasks
    /\ PluginOnly

\* lines 112-132: one of the early returns
SkipEvent ==
    /\ ppc = "gate" /\ ~RendersEvent(ev)
    /\ ppc' = "returned"
    /\ UNCHANGED <<ev, chain, file, sent, stopped, recall_raised, _recall_tasks, nevents>>
    /\ PluginOnly

\* lines 134-135, 88-91: render wrote the image and returned its path
RenderedImage ==
    /\ ppc = "gate" /\ RendersEvent(ev)
    /\ file' = "exists"
    /\ ppc' = "mode"
    /\ UNCHANGED <<ev, chain, sent, stopped, recall_raised, _recall_tasks, nevents>>
    /\ PluginOnly

\* lines 134-138, 92-94: render raised, _render_async returned None
RenderFailed ==
    /\ ppc = "gate" /\ RendersEvent(ev)
    /\ ppc' = "returned"
    /\ UNCHANGED <<ev, chain, file, sent, stopped, recall_raised, _recall_tasks, nevents>>
    /\ PluginOnly

\* lines 146-152
EnterRecallMode ==
    /\ ppc = "mode" /\ UsesRecallMode(ev)
    /\ ppc' = "ids"
    /\ UNCHANGED <<ev, chain, file, sent, stopped, recall_raised, _recall_tasks, nevents>>
    /\ PluginOnly

\* lines 146, 148, 152, 194-195: not recall mode
EnterNormalMode ==
    /\ ppc = "mode" /\ ~UsesRecallMode(ev)
    /\ ppc' = "normal"
    /\ UNCHANGED <<ev, chain, file, sent, stopped, recall_raised, _recall_tasks, nevents>>
    /\ PluginOnly

\* lines 154-167: the ids are read, the image is read and the file removed
ReadImageAndRemove ==
    /\ ppc = "ids" /\ file = "exists"
    /\ file' = "removed"
    /\ ppc' = "send"
    /\ UNCHANGED <<ev, chain, sent, stopped, recall_raised, _recall_tasks, nevents>>
    /\ PluginOnly

\* lines 154-155, 191-193: get_group_id or get_sender_id raises
GetIdsRaises ==
    /\ ppc = "ids"
    /\ recall_raised' = TRUE
    /\ ppc' = "normal"
    /\ UNCHANGED <<ev, chain, file, sent, stopped, _recall_tasks, nevents>>
    /\ PluginOnly

\* lines 173-176, 191-193: int(group_id), int(user_id) or the send raises
SendRaises ==
    /\ ppc = "send"
    /\ recall_raised' = TRUE
    /\ ppc' = "normal"
    /\ UNCHANGED <<ev, chain, file, sent, stopped, _recall_tasks, nevents>>
    /\ PluginOnly

\* lines 173-183: sent; the answer is empty or holds no message_id
SentWithoutId ==
    /\ ppc = "send"
    /\ sent' = TRUE
    /\ ppc' = "clear"
    /\ UNCHANGED <<ev, chain, file, stopped, recall_raised, _recall_tasks, nevents>>
    /\ PluginOnly

\* lines 173-185, 68-86: sent, and the recall task is created
SentAndScheduled ==
    /\ ppc = "send"
    /\ sent' = TRUE
    /\ _recall_tasks' = _recall_tasks + 1
    /\ ppc' = "clear"
    /\ UNCHANGED <<ev, chain, file, stopped, recall_raised, nevents>>
    /\ PluginOnly

\* lines 173-184, 191-193: sent, then send_result.get or int(msg_id) raises
SentThenScheduleRaises ==
    /\ ppc = "send"
    /\ sent' = TRUE
    /\ recall_raised' = TRUE
    /\ ppc' = "normal"
    /\ UNCHANGED <<ev, chain, file, stopped, _recall_tasks, nevents>>
    /\ PluginOnly

\* lines 188-190
ClearChainAndStop ==
    /\ ppc = "clear"
    /\ chain' = "cleared"
    /\ stopped' = TRUE
    /\ ppc' = "returned"
    /\ UNCHANGED <<ev, file, sent, recall_raised, _recall_tasks, nevents>>
    /\ PluginOnly

\* lines 198-201, 204-209: the file is read, the chain replaced, the file removed
NormalModeReplaces ==
    /\ ppc = "normal" /\ file = "exists"
    /\ chain' = "image"
    /\ file' = "removed"
    /\ ppc' = "returned"
    /\ UNCHANGED <<ev, sent, stopped, recall_raised, _recall_tasks, nevents>>
    /\ PluginOnly

\* lines 198-199, 202-209: open raises on the removed file; the chain stays
NormalModeOpenFails ==
    /\ ppc = "normal" /\ file # "exists"
    /\ ppc' = "returned"
    /\ UNCHANGED <<ev, chain, file, sent, stopped, recall_raised, _recall_tasks, nevents>>
    /\ PluginOnly

\* the handler has returned; the framework sends what the chain holds
HandlerReturned ==
    /\ ppc = "returned"
    /\ ppc' = "idle"
    /\ UNCHANGED <<ev, chain, file, sent, stopped, recall_raised, _recall_tasks, nevents>>
    /\ PluginOnly

\* lines 74-85: a recall task ends (recalled, or delete_msg failed) and its
\* done callback takes it off the list
RecallTaskDone ==
    /\ _recall_tasks > 0
    /\ _recall_tasks' = _recall_tasks - 1
    /\ UNCHANGED <<ev, chain, file, ppc, sent, stopped, recall_raised, nevents>>
    /\ PluginOnly

\* lines 62-66
terminate ==
    /\ ppc = "idle" /\ nevents > 0
    /\ _recall_tasks' = 0
    /\ ppc' = "off"
    /\ UNCHANGED <<ev, chain, file, sent, stopped, recall_raised, nevents>>
    /\ PluginOnly

PluginNext ==
    \/ \E e \in Events : HandleEvent(e)
    \/ SkipEvent
    \/ RenderedImage
    \/ RenderFailed
    \/ EnterRecallMode
    \/ EnterNormalMode
    \/ ReadImageAndRemove
    \/ GetIdsRaises
    \/ SendRaises
    \/ SentWithoutId
    \/ SentAndScheduled
    \/ SentThenScheduleRaises
    \/ ClearChainAndStop
    \/ NormalModeReplaces
    \/ NormalModeOpenFails
    \/ HandlerReturned
    \/ RecallTaskDone
    \/ terminate

-----------------------------------------------------------------------------
(* Specifications *)

InitSplit == SegInit /\ EmojiIdle /\ RenderIdle /\ PluginIdle

SpecSplit == InitSplit /\ [][SegNext]_vars

InitEmoji == SegIdle /\ EmojiInit /\ RenderIdle /\ PluginIdle

SpecEmoji == InitEmoji /\ [][EmojiNext]_vars

InitRender == SegIdle /\ EmojiIdle /\ RenderInit /\ PluginIdle

SpecRender == InitRender /\ [][RenderNext]_vars

InitPlugin == SegIdle /\ EmojiIdle /\ RenderIdle /\ PluginInit

SpecPlugin == InitPlugin /\ [][PluginNext]_vars

-----------------------------------------------------------------------------
(* Claims about the segmenter *)

SegmentTexts(segs) == [k \in 1..Len(segs) |-> segs[k].text]

\* C1: concatenating the text of the segments split_text returns, in order,
\* reproduces the input line exactly, also for lines that hold an emoji-class
\* run of two or more code points (emoji + variation selector, emoji + ZWJ +
\* emoji): the run is one is_emoji segment whose text is the full run.
C1_LosslessPartition ==
    spc = "done" => Concat(SegmentTexts(result)) = line

-----------------------------------------------------------------------------
(* Claims about the bitmap lookup *)

\* U+FE00..U+FE0F, the block PATTERN lists as variation selectors
IsVariationSelector(c) == c \in 65024..65039

IsPrefix(a, b) == Len(a) <= Len(b) /\ SubSeq(b, 1, Len(a)) = a

FetchedUrls == [k \in 1..Len(fetched) |-> fetched[k].url]

\* the three keys as the claim words them, every variation selector stripped in (1)
C7_KeysAllSelectorsStripped(e) ==
    LET stripped == SelectSeq(e, LAMBDA c : ~IsVariationSelector(c))
        k1 == HexJoin(stripped)
        k2 == HexJoin(e)
    IN  <<k1>> \o (IF k2 # k1 THEN <<k2>> ELSE <<>>)
             \o (IF stripped # <<>> /\ Hex(stripped[1]) # k1
                 THEN <<Hex(stripped[1])>> ELSE <<>>)

\* the three keys with only U+FE0F stripped in (1)
C7_KeysFE0FStripped(e) ==
    LET stripped == SelectSeq(e, LAMBDA c : c # VS16)
        k1 == HexJoin(stripped)
        k2 == HexJoin(e)
    IN  <<k1>> \o (IF k2 # k1 THEN <<k2>> ELSE <<>>)
             \o (IF stripped # <<>> /\ Hex(stripped[1]) # k1
                 THEN <<Hex(stripped[1])>> ELSE <<>>)

\* the fetches of one call follow the candidate list keys: in order, at most
\* three, every one before the last a failure, none after a success, and None
\* only after every candidate failed
C7_FollowsKeys(keys) ==
    /\ Len(keys) <= 3
    /\ IsPrefix(FetchedUrls, keys)
    /\ \A k \in 1..Len(fetched) : fetched[k].ok => k = Len(fetched)
    /\ (fetched # <<>> /\ fetched[Len(fetched)].ok) => (epc = "returned" /\ img = "image")
    /\ (epc = "returned" /\ img = "image" /\ fetched # <<>>) => fetched[Len(fetched)].ok
    /\ (epc = "returned" /\ img = "none") => FetchedUrls = keys

-----------------------------------------------------------------------------
(* Claims about the layout *)

LaidOut == rpc \in {"size", "paint", "done"}
Sized == rpc \in {"paint", "done"}

RECURSIVE SumWidths(_)
SumWidths(units) ==
    IF units = <<>> THEN 0 ELSE Head(units).w + SumWidths(Tail(units))

CeilDiv(a, b) == (a + b - 1) \div b

Max(a, b) == IF a >= b THEN a ELSE b

\* C2: a no_wrap segment wider than the usable text width is alone on its row,
\* whatever precedes or follows it on the source line, and every row starts at
\* cursor 0 (the paint loop draws its first unit at the left padding).
C2_NoWrapRunAlone ==
    /\ LaidOut =>
         \A i \in 1..Len(render_lines) :
             LET units == render_lines[i].segments
             IN  \A k \in 1..Len(units) :
                     (units[k].seg.no_wrap /\ units[k].w > geom.text_area_width)
                         => Len(units) = 1
    /\ \A i \in 1..Len(drawn) :
           drawn[i].units # <<>> => drawn[i].units[1].x = geom.real_padding

\* C9: every non-blank row holds at least one unit, and a row whose units sum
\* to more than the usable text width holds exactly one unit.
C9_OnlySingleUnitRowsOverflow ==
    LaidOut =>
        \A i \in 1..Len(render_lines) :
            LET units == render_lines[i].segments
            IN  /\ ~render_lines[i].is_empty => Len(units) >= 1
                /\ SumWidths(units) > geom.text_area_width => Len(units) = 1

\* the text is one source line of plain characters, not blank: no line break,
\* no emoji, no separator run
IsPlainLine(t) ==
    /\ \A k \in 1..Len(t) : t[k] # Newline
    /\ ~IsBlankLine(t)
    /\ \A k \in 1..Len(split_text(t)) :
           ~split_text(t)[k].is_emoji /\ ~split_text(t)[k].no_wrap

CharWidth == MeasuredWidth(<<LatinA>>, adv2)

\* C3 (as stated): a plain line of N characters of width w >= 1 on a usable
\* width W >= 1 is laid out in exactly ceil(N*w / W) rows.
C3_RowsCeilOfTotalWidth ==
    (LaidOut /\ IsPlainLine(text) /\ CharWidth >= 1 /\ geom.text_area_width >= 1)
        => Len(render_lines) = CeilDiv(Len(text) * CharWidth, geom.text_area_width)

\* C3 (amended): a plain, non-blank line of N characters of width w >= 1 on a
\* usable width W >= 1 is laid out in exactly ceil(N / max(1, floor(W/w)))
\* rows; every row but the last holds max(1, floor(W/w)) characters and the
\* last one holds the rest.
C3_RowsCeilOfCharsPerRow ==
    (LaidOut /\ IsPlainLine(text) /\ CharWidth >= 1 /\ geom.text_area_width >= 1)
        => LET perRow == Max(1, geom.text_area_width \div CharWidth)
               rows == CeilDiv(Len(text), perRow)
           IN  /\ Len(render_lines) = rows
               /\ \A i \in 1..Len(render_lines) :
                      /\ ~render_lines[i].is_empty
                      /\ Len(render_lines[i].segments) =
                             IF i < rows THEN perRow ELSE Len(text) - (rows - 1) * perRow

\* a plain line wrapped into more rows than ceil(N*w / W)
C3_Witness ==
    /\ LaidOut /\ IsPlainLine(text) /\ CharWidth >= 1 /\ geom.text_area_width >= 1
    /\ Len(render_lines) >= 3
    /\ Len(render_lines) > CeilDiv(Len(text) * CharWidth, geom.text_area_width)

-----------------------------------------------------------------------------
(* Claims about the canvas *)

BlankRows == Cardinality({i \in 1..Len(render_lines) : render_lines[i].is_empty})
FullRows == Cardinality({i \in 1..Len(render_lines) : ~render_lines[i].is_empty})

\* C4 (as stated): the canvas height is 2 x real padding plus the row heights,
\* a blank row counting exactly half of the line-pixel-height (odd or even),
\* and the paint loop ends with y = canvas height - real padding.
C4_BlankRowExactlyHalf ==
    /\ Sized =>
         2 * (canvas_height - 2 * geom.real_padding)
             = 2 * geom.line_pixel_height * FullRows + geom.line_pixel_height * BlankRows
    /\ rpc = "done" => y = canvas_height - geom.real_padding

\* C4 (amended): the canvas height is 2 x real padding plus the row heights, a
\* non-blank row counting the line-pixel-height and a blank row half of it
\* rounded down to whole pixels; the paint loop advances y by the same amounts
\* and ends with y = canvas height - real padding.
C4_BlankRowHalfRoundedDown ==
    /\ Sized =>
         canvas_height = 2 * geom.real_padding
                            + geom.line_pixel_height * FullRows
                            + (geom.line_pixel_height \div 2) * BlankRows
    /\ \A i \in 1..Len(drawn) :
           drawn[i].y = geom.real_padding
               + geom.line_pixel_height
                   * Cardinality({j \in 1..(i - 1) : ~render_lines[j].is_empty})
               + (geom.line_pixel_height \div 2)
                   * Cardinality({j \in 1..(i - 1) : render_lines[j].is_empty})
    /\ rpc = "done" => y = canvas_height - geom.real_padding

\* a finished render with an odd line-pixel-height, a blank and a non-blank row
C4_Witness ==
    /\ rpc = "done"
    /\ geom.line_pixel_height % 2 = 1
    /\ BlankRows >= 1 /\ FullRows >= 1
    /\ geom.real_padding > 0

IsAllBlank(t) == \A k \in 1..Len(t) : IsWhitespace(t[k])

LineBreaks(t) == Cardinality({k \in 1..Len(t) : t[k] = Newline})

\* C8 (as stated): an all-blank text gives a canvas of padding only.
C8_AllBlankPaddingOnly ==
    (Sized /\ IsAllBlank(text)) => canvas_height = 2 * geom.real_padding

\* C8 (amended): an all-blank text gives one blank row for each of its lines
\* (line breaks + 1) and no unit at all; the canvas height is 2 x real padding
\* plus, for each of these rows, half the line-pixel-height rounded down.
C8_AllBlankRowsOnly ==
    (Sized /\ IsAllBlank(text)) =>
        /\ Len(render_lines) = LineBreaks(text) + 1
        /\ \A i \in 1..Len(render_lines) :
               render_lines[i].is_empty /\ render_lines[i].segments = <<>>
        /\ canvas_height = 2 * geom.real_padding
               + (LineBreaks(text) + 1) * (geom.line_pixel_height \div 2)

\* an all-blank text of spaces and a line break, rendered taller than its padding
C8_Witness ==
    /\ rpc = "done" /\ IsAllBlank(text)
    /\ \E k \in 1..Len(text) : text[k] = Space
    /\ LineBreaks(text) >= 1
    /\ canvas_height > 2 * geom.real_padding

-----------------------------------------------------------------------------
(* Claims about failures *)

\* C5: a malformed number or colour of the configuration falls back to the
\* default and render still returns a path: only a failure to encode or write
\* the image makes render fail.
C5_OnlySaveErrorsFail ==
    rpc = "raised" => raised = "save"

\* C6: whatever get_image returns for each emoji, the rows and the canvas are
\* those laid out before painting, every unit of every row is drawn (no
\* lookup aborts the render), and each unit's x is the left padding plus the
\* reserved widths of the units before it: a missing bitmap still advances x.
C6_LayoutIgnoresLookups ==
    /\ Sized =>
         /\ render_lines = LayoutLines(<<>>, SplitLines(text), geom, adv2)
         /\ canvas_height = TotalHeight(render_lines, geom.line_pixel_height)
                                + geom.real_padding * 2
         /\ Len(drawn) = row - 1
    /\ rpc = "done" => Len(drawn) = Len(render_lines)
    /\ \A i \in 1..Len(drawn) :
           LET units == render_lines[i].segments
           IN  /\ Len(drawn[i].units) = Len(units)
               /\ \A k \in 1..Len(units) :
                      drawn[i].units[k].x
                          = geom.real_padding + SumWidths(SubSeq(units, 1, k - 1))

\* a finished render in which an emoji without a bitmap is followed, on its
\* row, by another unit
C6_Witness ==
    /\ rpc = "done" /\ ret = "path"
    /\ \E i \in 1..Len(drawn) :
           \E k \in 1..(Len(drawn[i].units) - 1) :
               /\ drawn[i].units[k].is_emoji /\ ~drawn[i].units[k].pasted
               /\ drawn[i].units[k + 1].x > drawn[i].units[k].x

-----------------------------------------------------------------------------
(* Claims about the plugin *)

\* C10: when rendering succeeded and a step of the recall-mode path raised,
\* the handler returns with the result chain replaced by the image component
\* and with the temporary image file gone.
C10_RecallFailureFallsBackToImage ==
    (ppc = "returned" /\ recall_raised) => (chain = "image" /\ file = "removed")

=============================================================================
